---- MODULE Spec2Model ----
(***************************************************************************)
(* The weather ETL pipeline of dags/weather_etl_dag.py: three tasks,       *)
(* fetch_weather >> transform_weather >> save_weather, run by the Airflow  *)
(* scheduler once per DAG run, with the task results handed over through   *)
(* XCom and the record written to /home/airflow/data.                      *)
(*                                                                         *)
(* JSON values (and the Python values made of them) are tagged records;    *)
(* None is JNull.  The wall clock counts ticks of 1/TicksPerSecond second. *)
(***************************************************************************)
EXTENDS Integers, Sequences, FiniteSets, TLC

VARIABLES
    clock,      \* the wall clock, in ticks
    ti,         \* ti[r][t]: the task instance of task t in DAG run r
    xcom,       \* xcom[r][t]: the return value task t published in run r
    lastHttp,   \* lastHttp[r]: what the last fetch attempt of run r met on the wire
    saveLocal,  \* saveLocal[r]: the locals of a save_weather call in progress
    dirExists,  \* whether /home/airflow/data exists
    files,      \* the files of /home/airflow/data, by path
    created,    \* created[r]: the paths whose directory entry run r's saves created
    faults      \* the faults of the file system and of XCom met so far

vars == <<clock, ti, xcom, lastHttp, saveLocal, dirExists, files, created, faults>>

(****************************** bounds *************************************)
NumRuns == 2
MaxClock == 2
MaxFaults == 1
TicksPerSecond == 2

(************************* program constants *******************************)
retries == 1
timeout == 10

Runs == 1 .. NumRuns

Tasks == <<"fetch_weather", "transform_weather", "save_weather">>

TaskIds == {Tasks[i] : i \in 1 .. Len(Tasks)}

\* task_fetch >> task_transform >> task_save
Upstream(t) ==
    CASE t = "fetch_weather" -> {}
      [] t = "transform_weather" -> {"fetch_weather"}
      [] t = "save_weather" -> {"transform_weather"}

(****************************** JSON values ********************************)
JNull == [t |-> "null"]

JNum(n) == [t |-> "num", n |-> n]

JFloat(lit) == [t |-> "float", lit |-> lit]

JStr(s) == [t |-> "str", s |-> s]

JObj(m) == [t |-> "obj", m |-> m]

\* What response.json() cannot parse.
NotJson == [t |-> "invalid"]

EmptyDict == JObj(<<>>)

\* Python's truth test, `not v`.
Falsy(v) ==
    \/ v = JNull
    \/ v = EmptyDict
    \/ v = JNum(0)
    \/ v = JStr("")

\* dict.get(key, default)
DictGet(d, key, default) ==
    IF key \in DOMAIN d.m THEN d.m[key] ELSE default

\* The order in which the transformed dict was built, which json.dump keeps.
KeyOrder ==
    <<"timestamp", "location", "name", "latitude", "longitude", "weather",
      "temperature_celsius", "humidity_percent", "weather_code">>

RECURSIVE Spaces(_)
Spaces(n) == IF n = 0 THEN "" ELSE " " \o Spaces(n - 1)

RECURSIVE JsonDump(_, _)
RECURSIVE DumpItems(_, _, _, _)
\* The members of object v from KeyOrder[i] on, one per line.
DumpItems(v, i, level, first) ==
    IF i > Len(KeyOrder) THEN ""
    ELSE IF KeyOrder[i] \notin DOMAIN v.m THEN DumpItems(v, i + 1, level, first)
    ELSE (IF first THEN "" ELSE ",") \o "\n" \o Spaces(2 * level)
         \o "\"" \o KeyOrder[i] \o "\": " \o JsonDump(v.m[KeyOrder[i]], level)
         \o DumpItems(v, i + 1, level, FALSE)

\* json.dump(v, f, indent=2), at nesting depth level
JsonDump(v, level) ==
    CASE v.t = "null" -> "null"
      [] v.t = "num" -> ToString(v.n)
      [] v.t = "float" -> v.lit
      [] v.t = "str" -> "\"" \o v.s \o "\""
      [] v.t = "obj" ->
            IF DOMAIN v.m = {} THEN "{}"
            ELSE "{" \o DumpItems(v, 1, level + 1, TRUE)
                 \o "\n" \o Spaces(2 * level) \o "}"

(****************************** the clock **********************************)
Second(c) == c \div TicksPerSecond

Pad2(n) == IF n < 10 THEN "0" \o ToString(n) ELSE ToString(n)

\* The microseconds of the clock's time.
Microsecond(c) == ((c % TicksPerSecond) * 1000000) \div TicksPerSecond

RECURSIVE ZeroPad(_, _)
ZeroPad(str, width) == IF Len(str) >= width THEN str ELSE ZeroPad("0" \o str, width)

\* datetime.now().isoformat(): the microseconds are left out when they are zero.
Isoformat(c) ==
    "2026-01-13T00:00:" \o Pad2(Second(c))
    \o (IF Microsecond(c) = 0 THEN ""
        ELSE "." \o ZeroPad(ToString(Microsecond(c)), 6))

\* datetime.now().strftime('%Y%m%d_%H%M%S')
Strftime(c) == "20260113_0000" \o Pad2(Second(c))

\* output_dir / f"weather_{timestamp}.json"
FilePath(c) == "/home/airflow/data/weather_" \o Strftime(c) \o ".json"

(*************************** results of a call *****************************)
Raised(exc, logged) == [exc |-> exc, logged |-> logged, value |-> JNull]

Returned(v) == [exc |-> "none", logged |-> FALSE, value |-> v]

(************************** what the API may answer ************************)
CurrentFields == {"temperature_2m", "relative_humidity_2m", "weather_code"}

FieldValues(k) ==
    CASE k = "temperature_2m" -> {JNum(5), JNum(15)}
      [] k = "relative_humidity_2m" -> {JNum(80)}
      [] k = "weather_code" -> {JNum(0), JNum(3)}

AllFieldValues == UNION {FieldValues(k) : k \in CurrentFields}

\* Every `current` object holding some of the three fields.
CurrentObjects ==
    {JObj(m) : m \in UNION {{f \in [S -> AllFieldValues] :
                                \A k \in S : f[k] \in FieldValues(k)} :
                            S \in SUBSET CurrentFields}}

FullResponse(temp) ==
    JObj([current |-> JObj([temperature_2m |-> JNum(temp),
                            relative_humidity_2m |-> JNum(80),
                            weather_code |-> JNum(3)])])

\* A response object: empty, or `current` absent, null or an object, with
\* another member or without.
ResponseObjects ==
    {JObj(<<>>), JObj([timezone |-> JStr("UTC")])}
    \cup {JObj([current |-> c]) : c \in CurrentObjects \cup {JNull}}
    \cup {JObj([current |-> FullResponse(15).m["current"], timezone |-> JStr("UTC")])}

StatusCodes == {200, 300, 404, 503}

ElapsedSeconds == {1, 11}

ConnError == [kind |-> "conn_error"]

Response(elapsed, status, body) ==
    [kind |-> "response", elapsed |-> elapsed, status |-> status, body |-> body]

\* Everything requests.get may meet: no connection, or a response that took
\* `elapsed` seconds, with a status and a body.
HttpWide ==
    {ConnError}
    \cup {Response(e, s, b) : e \in ElapsedSeconds, s \in StatusCodes,
                              b \in ResponseObjects \cup {JNull, NotJson}}

\* The few answers the interleavings of several runs are explored with.
HttpNarrow ==
    {ConnError}
    \cup {Response(1, 200, b) : b \in {JObj(<<>>), FullResponse(5), FullResponse(15)}}

\* What an attempt keeps of the exchange for the record.
HttpSeen(http) ==
    IF http.kind = "response"
    THEN [kind |-> "response", elapsed |-> http.elapsed, status |-> http.status]
    ELSE [kind |-> http.kind]

NoHttp == [kind |-> "none"]

(****************************** fetch_weather ******************************)
\* requests.get(url, params=params, timeout=10)
requests_get(http) ==
    IF http.kind = "conn_error" THEN "ConnectionError"
    ELSE IF http.elapsed > timeout THEN "Timeout"
    ELSE "none"

\* response.raise_for_status(): an HTTPError for a 4xx or a 5xx status
raise_for_status(status) ==
    IF 400 <= status /\ status < 600 THEN "HTTPError" ELSE "none"

\* response.json()
response_json(body) ==
    IF body = NotJson THEN "JSONDecodeError" ELSE "none"

\* The exceptions `except requests.exceptions.RequestException` catches.
RequestException == {"ConnectionError", "Timeout", "HTTPError", "JSONDecodeError"}

\* The first exception of the try block, "none" when it runs through.
fetch_try(http) ==
    IF requests_get(http) # "none" THEN requests_get(http)
    ELSE IF raise_for_status(http.status) # "none" THEN raise_for_status(http.status)
    ELSE response_json(http.body)

fetch_weather(http) ==
    IF fetch_try(http) = "none" THEN Returned(http.body)
    ELSE Raised(fetch_try(http), fetch_try(http) \in RequestException)

(**************************** transform_weather ****************************)
\* A faulty variant: current['...'] in place of current.get('...'): a missing field raises.
transform_weather_strict(raw_data, now) ==
    IF Falsy(raw_data) THEN Raised("ValueError", FALSE)
    ELSE IF raw_data.t # "obj" THEN Raised("AttributeError", FALSE)
    ELSE LET current == DictGet(raw_data, "current", EmptyDict) IN
         IF current.t # "obj" THEN Raised("AttributeError", FALSE)
         ELSE IF ~(CurrentFields \subseteq DOMAIN current.m) THEN Raised("KeyError", FALSE)
         ELSE Returned(JObj(
                [timestamp |-> JStr(Isoformat(now)),
                 location |-> JObj([name |-> JStr("London"),
                                    latitude |-> JFloat("51.5074"),
                                    longitude |-> JFloat("-0.1278")]),
                 weather |-> JObj(
                    [temperature_celsius |-> current.m["temperature_2m"],
                     humidity_percent |-> current.m["relative_humidity_2m"],
                     weather_code |-> current.m["weather_code"]])]))

\* A faulty variant: `current.get('...') or None`: a zero is taken for a missing value.
OrNone(v) == IF Falsy(v) THEN JNull ELSE v

transform_weather_or_none(raw_data, now) ==
    IF Falsy(raw_data) THEN Raised("ValueError", FALSE)
    ELSE IF raw_data.t # "obj" THEN Raised("AttributeError", FALSE)
    ELSE LET current == DictGet(raw_data, "current", EmptyDict) IN
         IF current.t # "obj" THEN Raised("AttributeError", FALSE)
         ELSE Returned(JObj(
                [timestamp |-> JStr(Isoformat(now)),
                 location |-> JObj([name |-> JStr("London"),
                                    latitude |-> JFloat("51.5074"),
                                    longitude |-> JFloat("-0.1278")]),
                 weather |-> JObj(
                    [temperature_celsius |-> OrNone(DictGet(current, "temperature_2m", JNull)),
                     humidity_percent |-> OrNone(DictGet(current, "relative_humidity_2m", JNull)),
                     weather_code |-> OrNone(DictGet(current, "weather_code", JNull))])]))

transform_weather(raw_data, now) ==
    IF Falsy(raw_data) THEN Raised("ValueError", FALSE)
    ELSE IF raw_data.t # "obj" THEN Raised("AttributeError", FALSE)
    ELSE LET current == DictGet(raw_data, "current", EmptyDict) IN
         IF current.t # "obj" THEN Raised("AttributeError", FALSE)
         ELSE Returned(JObj(
                [timestamp |-> JStr(Isoformat(now)),
                 location |-> JObj([name |-> JStr("London"),
                                    latitude |-> JFloat("51.5074"),
                                    longitude |-> JFloat("-0.1278")]),
                 weather |-> JObj(
                    [temperature_celsius |-> DictGet(current, "temperature_2m", JNull),
                     humidity_percent |-> DictGet(current, "relative_humidity_2m", JNull),
                     weather_code |-> DictGet(current, "weather_code", JNull)])]))

(******************************* save_weather ******************************)
\* A faulty variant: the directory is made before the hand-off value is checked.
save_prologue_mkdir_first(weather_data, dir) ==
    IF Falsy(weather_data) THEN [exc |-> "ValueError", dirExists |-> TRUE]
    ELSE [exc |-> "none", dirExists |-> TRUE]

\* save_weather up to output_dir.mkdir(parents=True, exist_ok=True), the
\* directory being there or not (dir): the exception raised and whether the
\* directory is there afterwards.  The check of the hand-off value comes first.
save_prologue(weather_data, dir) ==
    IF Falsy(weather_data) THEN [exc |-> "ValueError", dirExists |-> dir]
    ELSE [exc |-> "none", dirExists |-> TRUE]

\* A write of `bytes` at offset 0 of a file holding `old`: open(path, 'w') has
\* truncated the file for this writer, but another writer may have written since.
WriteAt0(old, bytes) ==
    IF Len(bytes) >= Len(old) THEN bytes
    ELSE bytes \o SubSeq(old, Len(bytes) + 1, Len(old))

\* What a write that fails may have put on disk: nothing, or a first part.
PartialLens(bytes) == {0, Len(bytes) \div 2}

NoLocals == [phase |-> "idle"]

(******************************* the scheduler *****************************)
\* A task instance: its state and try number, and of its last attempt the value
\* xcom_pull gave it, the exception it raised, whether logger.error was called
\* and the value it returned.
NoTry ==
    [state |-> "none", try_number |-> 0, pulled |-> JNull,
     exc |-> "none", logged |-> FALSE, returned |-> JNull]

\* A faulty variant: the trigger rule all_done: every upstream task has ended, failed or not.
UpstreamDoneAllDone(r, t) ==
    \A u \in Upstream(t) : ti[r][u].state \in {"success", "failed"}

\* The default trigger rule: every upstream task of the run has succeeded.
UpstreamDone(r, t) ==
    \A u \in Upstream(t) : ti[r][u].state = "success"

\* A task instance the scheduler may start: never run or waiting for its
\* retry, with its upstream tasks done.  retry_delay (5 minutes) only puts the
\* retry off: the retry may start at any later step, whatever the clock shows.
Runnable(r, t) ==
    /\ ti[r][t].state \in {"none", "up_for_retry"}
    /\ UpstreamDone(r, t)

\* A faulty variant: one retry too many.
StateAfterFailureOffByOne(try) ==
    IF try <= retries + 1 THEN "up_for_retry" ELSE "failed"

\* The state of a task instance whose attempt number `try` has raised.
StateAfterFailure(try) ==
    IF try <= retries THEN "up_for_retry" ELSE "failed"

\* context['task_instance'].xcom_pull(task_ids=t), in run r
xcom_pull(r, t) == xcom[r][t]

\* The task instances once an attempt of t in run r has started, having
\* pulled `pulled`.
Started(r, t, pulled) ==
    [ti EXCEPT ![r][t] = [state |-> "running", try_number |-> @.try_number + 1,
                          pulled |-> pulled, exc |-> "none", logged |-> FALSE,
                          returned |-> JNull]]

\* The task instances once the attempt of t in run r, now starting or running,
\* has ended with `res`, having pulled `pulled`.
Ended(r, t, pulled, res) ==
    LET try == IF ti[r][t].state = "running" THEN ti[r][t].try_number
               ELSE ti[r][t].try_number + 1
    IN [ti EXCEPT ![r][t] =
          [state |-> IF res.exc = "none" THEN "success" ELSE StateAfterFailure(try),
           try_number |-> try, pulled |-> pulled, exc |-> res.exc,
           logged |-> res.logged, returned |-> res.value]]

\* The return value of an attempt is published; an attempt that raised, or
\* returned None, leaves nothing (the entry was cleared when it started).
Published(r, t, res) ==
    [xcom EXCEPT ![r][t] = IF res.exc = "none" THEN res.value ELSE JNull]

Init ==
    /\ clock = 0
    /\ ti = [r \in Runs |-> [t \in TaskIds |-> NoTry]]
    /\ xcom = [r \in Runs |-> [t \in TaskIds |-> JNull]]
    /\ lastHttp = [r \in Runs |-> NoHttp]
    /\ saveLocal = [r \in Runs |-> NoLocals]
    /\ dirExists = FALSE
    /\ files = <<>>
    /\ created = [r \in Runs |-> {}]
    /\ faults = 0

\* One more fault of the environment, while the bound allows it.
Fault ==
    /\ faults < MaxFaults
    /\ faults' = faults + 1

Tick ==
    /\ clock < MaxClock
    /\ clock' = clock + 1
    /\ UNCHANGED <<ti, xcom, lastHttp, saveLocal, dirExists, files, created, faults>>

\* An attempt of fetch_weather in run r, the API answering `http`.
FetchAttempt(r, http) ==
    /\ Runnable(r, "fetch_weather")
    /\ ti' = Ended(r, "fetch_weather", JNull, fetch_weather(http))
    /\ xcom' = Published(r, "fetch_weather", fetch_weather(http))
    /\ lastHttp' = [lastHttp EXCEPT ![r] = HttpSeen(http)]
    /\ UNCHANGED <<clock, saveLocal, dirExists, files, created, faults>>

\* An attempt of transform_weather in run r.
TransformAttempt(r) ==
    /\ Runnable(r, "transform_weather")
    /\ LET raw_data == xcom_pull(r, "fetch_weather")
           res == transform_weather(raw_data, clock)
       IN
        /\ ti' = Ended(r, "transform_weather", raw_data, res)
        /\ xcom' = Published(r, "transform_weather", res)
    /\ UNCHANGED <<clock, lastHttp, saveLocal, dirExists, files, created, faults>>

\* save_weather up to the file path: the hand-off value is pulled and checked,
\* the directory made (mkdir is outside the try block: its OSError is raised
\* unlogged), the time taken.
SaveBegin(r) ==
    /\ Runnable(r, "save_weather")
    /\ LET weather_data == xcom_pull(r, "transform_weather")
           pro == save_prologue(weather_data, dirExists)
       IN
       \/ /\ pro.exc # "none"
          /\ ti' = Ended(r, "save_weather", weather_data, Raised(pro.exc, FALSE))
          /\ dirExists' = pro.dirExists
          /\ UNCHANGED <<saveLocal, faults>>
       \/ /\ pro.exc = "none"
          /\ ~dirExists
          /\ Fault
          /\ ti' = Ended(r, "save_weather", weather_data, Raised("OSError", FALSE))
          /\ UNCHANGED <<dirExists, saveLocal>>
       \/ /\ pro.exc = "none"
          /\ ti' = Started(r, "save_weather", weather_data)
          /\ dirExists' = pro.dirExists
          /\ UNCHANGED faults
          /\ saveLocal' = [saveLocal EXCEPT ![r] =
                [phase |-> "open", weather_data |-> weather_data,
                 stamp |-> clock, file_path |-> FilePath(clock)]]
    /\ xcom' = [xcom EXCEPT ![r]["save_weather"] = JNull]
    /\ UNCHANGED <<clock, lastHttp, files, created>>

\* open(file_path, 'w'): the file is created or truncated, or an IOError.
SaveOpen(r) ==
    /\ saveLocal[r].phase = "open"
    /\ \/ /\ Fault
          /\ ti' = Ended(r, "save_weather", saveLocal[r].weather_data, Raised("IOError", TRUE))
          /\ saveLocal' = [saveLocal EXCEPT ![r] = NoLocals]
          /\ UNCHANGED <<files, created>>
       \/ /\ LET p == saveLocal[r].file_path IN
             /\ files' = (p :> [content |-> "", writer |-> r,
                                stamps |-> (IF p \in DOMAIN files
                                            THEN files[p].stamps ELSE {})
                                           \cup {saveLocal[r].stamp}])
                         @@ files
             /\ created' = [created EXCEPT ![r] =
                              IF p \in DOMAIN files THEN @ ELSE @ \cup {p}]
          /\ saveLocal' = [saveLocal EXCEPT ![r].phase = "write"]
          /\ UNCHANGED <<ti, faults>>
    /\ UNCHANGED <<clock, xcom, lastHttp, dirExists>>

\* json.dump(weather_data, f, indent=2) and the close of the file: the bytes
\* reach the file in one write, or an IOError leaves none or some of them.
SaveWrite(r) ==
    /\ saveLocal[r].phase = "write"
    /\ LET p == saveLocal[r].file_path
           bytes == JsonDump(saveLocal[r].weather_data, 0)
       IN
       \/ /\ Fault
          /\ \E n \in PartialLens(bytes) :
                files' = [files EXCEPT ![p].content = WriteAt0(@, SubSeq(bytes, 1, n)),
                                       ![p].writer = r]
          /\ ti' = Ended(r, "save_weather", saveLocal[r].weather_data, Raised("IOError", TRUE))
          /\ UNCHANGED xcom
       \/ /\ files' = [files EXCEPT ![p].content = WriteAt0(@, bytes),
                                    ![p].writer = r]
          /\ ti' = Ended(r, "save_weather", saveLocal[r].weather_data, Returned(JStr(p)))
          /\ xcom' = Published(r, "save_weather", Returned(JStr(p)))
          /\ UNCHANGED faults
    /\ saveLocal' = [saveLocal EXCEPT ![r] = NoLocals]
    /\ UNCHANGED <<clock, lastHttp, dirExists, created>>

\* An XCom entry a task is still to pull is removed from outside (the entries
\* can be deleted from the web interface), so that the xcom_pull yields None.
XComDelete(r, t) ==
    /\ xcom[r][t] # JNull
    /\ \E d \in TaskIds : t \in Upstream(d) /\ Runnable(r, d)
    /\ Fault
    /\ xcom' = [xcom EXCEPT ![r][t] = JNull]
    /\ UNCHANGED <<clock, ti, lastHttp, saveLocal, dirExists, files, created>>

\* The steps of the runs RS, the API answering from H.
Step(RS, H) ==
    \/ Tick
    \/ \E r \in RS : \E http \in H : FetchAttempt(r, http)
    \/ \E r \in RS : TransformAttempt(r)
    \/ \E r \in RS : SaveBegin(r)
    \/ \E r \in RS : SaveOpen(r)
    \/ \E r \in RS : SaveWrite(r)
    \/ \E r \in RS : \E t \in TaskIds : XComDelete(r, t)

\* Concurrent DAG runs.
Next == Step(Runs, HttpNarrow)

Spec == Init /\ [][Next]_vars

\* One DAG run, against everything the API may answer.
OneRun == {1}

NextOne == Step(OneRun, HttpWide)

SpecOne == Init /\ [][NextOne]_vars

\* The steps the scheduler and the workers take for run r: a runnable task is
\* started, and a started task runs to its end (the request times out, the
\* file calls return).
RunStep(r, H) ==
    \/ \E http \in H : FetchAttempt(r, http)
    \/ TransformAttempt(r)
    \/ SaveBegin(r)
    \/ SaveOpen(r)
    \/ SaveWrite(r)

FairSpecOne == SpecOne /\ \A r \in OneRun : WF_vars(RunStep(r, HttpWide))

(***************************************************************************)
(*                              The claims                                 *)
(***************************************************************************)
F == "fetch_weather"

T == "transform_weather"

S == "save_weather"

Attempted(r, t) == ti[r][t].try_number > 0

HasFailed(r, t) == ti[r][t].state \in {"up_for_retry", "failed"}

\* A file some save of run r opened.
WroteFile(r) ==
    \/ created[r] # {}
    \/ \E p \in DOMAIN files : files[p].writer = r
    \/ saveLocal[r] # NoLocals

\* C1: within a run the stages form the chain Fetch -> Transform -> Save:
\* Transform is attempted only once Fetch has succeeded in that run, Save only
\* once Transform has; after a stage has failed for good no later stage of the
\* run is attempted, nothing of it is handed over, and a run whose Fetch or
\* Transform failed has written no file.
C1_LinearChain ==
    \A r \in Runs :
        /\ Attempted(r, T) => ti[r][F].state = "success"
        /\ Attempted(r, S) => ti[r][T].state = "success"
        /\ ti[r][F].state = "failed" =>
              /\ ~Attempted(r, T) /\ ~Attempted(r, S)
              /\ xcom[r][F] = JNull /\ xcom[r][T] = JNull
        /\ ti[r][T].state = "failed" =>
              /\ ~Attempted(r, S)
              /\ xcom[r][T] = JNull /\ xcom[r][S] = JNull
        /\ (ti[r][F].state = "failed" \/ ti[r][T].state = "failed") => ~WroteFile(r)

\* A run whose Fetch succeeded and whose Transform failed for good, the chain
\* halted with no file written.
C1_Witness ==
    \E r \in Runs :
        /\ ti[r][F].state = "success"
        /\ ti[r][T].state = "failed"
        /\ ti[r][S].state = "none"
        /\ files = <<>>

RunSucceeded(r) == \A t \in TaskIds : ti[r][t].state = "success"

RunFailed(r) == \E t \in TaskIds : ti[r][t].state = "failed"

Attempts(r) == ti[r][F].try_number + ti[r][T].try_number + ti[r][S].try_number

\* C2: each task of a run is attempted at most twice, a run makes at most six
\* stage attempts, and every run ends: all three stages succeeded, or a stage
\* failed for good after its retry, and it stays so.
C2_BoundedRetries ==
    /\ [](\A r \in Runs :
            /\ \A t \in TaskIds : ti[r][t].try_number <= 2
            /\ Attempts(r) <= 6
            /\ \A t \in TaskIds : ti[r][t].state = "failed" => ti[r][t].try_number = 2)
    /\ \A r \in OneRun : <>[](RunSucceeded(r) \/ RunFailed(r))

\* A run failed for good by a stage whose retry failed too.
C2_Witness ==
    \E r \in Runs :
        /\ ti[r][S].state = "failed"
        /\ ti[r][S].try_number = 2
        /\ ti[r][F].try_number = 2
        /\ Attempts(r) = 5

\* The raw response the last attempt of Transform pulled in run r, and the
\* record it returned.
RawOf(r) == ti[r][T].pulled

RecordOf(r) == ti[r][T].returned

\* The `current` object Transform reads off raw: the empty dict when absent.
CurrentOf(raw) == IF "current" \in DOMAIN raw.m THEN raw.m["current"] ELSE EmptyDict

\* The output field each source field goes to.
Renamed(k) ==
    CASE k = "temperature_2m" -> "temperature_celsius"
      [] k = "relative_humidity_2m" -> "humidity_percent"
      [] k = "weather_code" -> "weather_code"

\* raw is a response object that lacks one of the three fields at least.
MissingFields(raw) ==
    /\ raw.t = "obj"
    /\ \/ "current" \notin DOMAIN raw.m
       \/ raw.m["current"].t # "obj"
       \/ ~(CurrentFields \subseteq DOMAIN raw.m["current"].m)

\* Transform has succeeded in run r, each missing field null in its output
\* and each present one kept.
NullsForMissing(r) ==
    /\ ti[r][T].state = "success"
    /\ RecordOf(r).t = "obj"
    /\ \A k \in CurrentFields :
          RecordOf(r).m["weather"].m[Renamed(k)] =
             IF CurrentOf(RawOf(r)).t = "obj" /\ k \in DOMAIN CurrentOf(RawOf(r)).m
             THEN CurrentOf(RawOf(r)).m[k]
             ELSE JNull

London ==
    JObj([name |-> JStr("London"), latitude |-> JFloat("51.5074"),
          longitude |-> JFloat("-0.1278")])

\* C8: whenever Transform succeeds `location` is London's, and for a response
\* holding all three fields the `weather` object is exactly those three values
\* under the keys temperature_celsius, humidity_percent and weather_code.
C8_FieldsCopied ==
    \A r \in Runs :
        ti[r][T].state = "success" =>
            /\ RecordOf(r).m["location"] = London
            /\ ~MissingFields(RawOf(r)) =>
                  RecordOf(r).m["weather"] =
                     JObj([temperature_celsius |-> RawOf(r).m["current"].m["temperature_2m"],
                           humidity_percent |-> RawOf(r).m["current"].m["relative_humidity_2m"],
                           weather_code |-> RawOf(r).m["current"].m["weather_code"]])

\* Transform has succeeded on a full response whose weather code is 0.
C8_Witness ==
    \E r \in Runs :
        /\ ti[r][T].state = "success"
        /\ ~MissingFields(RawOf(r))
        /\ RecordOf(r).m["weather"].m["weather_code"] = JNum(0)
        /\ RecordOf(r).m["weather"].m["temperature_celsius"] = JNum(15)

\* The last fetch attempt of run r met a network error, a timeout or a status
\* that is not 2xx.
BadExchange(r) ==
    \/ lastHttp[r].kind = "conn_error"
    \/ /\ lastHttp[r].kind = "response"
       /\ \/ lastHttp[r].elapsed > 10
          \/ ~(200 <= lastHttp[r].status /\ lastHttp[r].status <= 299)

\* C9, as claimed: a fetch attempt that meets a status that is not 2xx, a
\* network error or the 10-second timeout fails, returns nothing and
\* publishes no hand-off value.
C9_Original ==
    \A r \in Runs :
        BadExchange(r) =>
            /\ HasFailed(r, F)
            /\ ti[r][F].exc \in RequestException
            /\ ti[r][F].returned = JNull
            /\ xcom[r][F] = JNull

\* C6, as claimed: every error a stage raises is logged at error severity and
\* then propagated, the attempt ending failed with no value returned.
C6_Original ==
    \A r \in Runs : \A t \in TaskIds :
        ti[r][t].exc # "none" =>
            /\ ti[r][t].logged
            /\ HasFailed(r, t)
            /\ ti[r][t].returned = JNull
            /\ xcom[r][t] = JNull

StartsAttempt(r, t) == ti'[r][t].try_number = ti[r][t].try_number + 1

\* C7: an attempt of Transform or of Save whose hand-off value is empty or
\* absent raises the missing-data error (ValueError) with no side effect:
\* no call of the API, no file or directory made or written, nothing published.
C7_NoSideEffect ==
    [][\A r \in Runs :
          /\ (StartsAttempt(r, T) /\ Falsy(xcom[r][F])) =>
                /\ ti'[r][T].exc = "ValueError"
                /\ ti'[r][T].state \in {"up_for_retry", "failed"}
                /\ xcom'[r][T] = JNull
                /\ UNCHANGED <<dirExists, files, created, lastHttp, saveLocal>>
                /\ ti'[r][F] = ti[r][F]
          /\ (StartsAttempt(r, S) /\ Falsy(xcom[r][T])) =>
                /\ ti'[r][S].exc = "ValueError"
                /\ ti'[r][S].state \in {"up_for_retry", "failed"}
                /\ xcom'[r][S] = JNull
                /\ UNCHANGED <<dirExists, files, created, lastHttp, saveLocal>>
                /\ ti'[r][F] = ti[r][F]
      ]_vars

\* Save has raised the missing-data error for good, Transform's value gone,
\* and there is neither a directory nor a file.
C7_Witness ==
    \E r \in Runs :
        /\ ti[r][S].state = "failed"
        /\ ti[r][S].exc = "ValueError"
        /\ ti[r][S].pulled = JNull
        /\ ti[r][T].state = "success"
        /\ ~dirExists
        /\ files = <<>>

\* C4, as claimed: once Save has succeeded in a run, the saves of that run,
\* the first attempt and the retry together, have created exactly one file.
C4_Original ==
    \A r \in Runs :
        ti[r][S].state = "success" => Cardinality(created[r]) = 1

\* No save is at work on the file at path p.
Quiet(p) ==
    \A r \in Runs : saveLocal[r] # NoLocals => saveLocal[r].file_path # p

\* C5, as claimed: the saves that wrote one file all took their time within
\* the same second, and once they are through, the one that wrote last having
\* succeeded, the file holds the record of that last writer.
C5_Original ==
    \A p \in DOMAIN files :
        /\ \A c1, c2 \in files[p].stamps : Second(c1) = Second(c2)
        /\ (Quiet(p) /\ ti[files[p].writer][S].returned = JStr(p)) =>
              files[p].content = JsonDump(ti[files[p].writer][S].pulled, 0)

\* C10, as claimed: a file no save is at work on holds exactly the record the
\* Transform of the run that wrote it last returned, a record whose weather
\* fields are those of the response that run's Fetch returned; and a stage
\* pulls nothing but what the stage before it returned in its own run.
C10_Original ==
    /\ \A p \in DOMAIN files :
          Quiet(p) =>
             /\ files[p].content = JsonDump(RecordOf(files[p].writer), 0)
             /\ RawOf(files[p].writer) = ti[files[p].writer][F].returned
             /\ NullsForMissing(files[p].writer)
    /\ \A r \in Runs :
          /\ ti[r][T].pulled \in {JNull, ti[r][F].returned}
          /\ ti[r][S].pulled \in {JNull, ti[r][T].returned}

====
